---- MODULE Spec2Model ----
(***************************************************************************)
(* Model of citation_conversion_utilities.py: the Citation class           *)
(* (parse_bibtex, prep_info_for_export, add_author_names_to_cff,           *)
(* export_as_cff) and the command-line driver (process, main).             *)
(*                                                                         *)
(* Representation.                                                         *)
(*  - A Python str is a sequence of one-character strings, so that split,  *)
(*    strip, int() and zfill are computed character by character.  The     *)
(*    en-dash U+2013 is the single character EnDash.                       *)
(*  - A Python value stored in info_dict is tagged by its type:            *)
(*    [str |-> s], [int |-> n], [none |-> TRUE], [dict |-> seq]; a dict    *)
(*    keyed 0..n-1 in insertion order is the sequence of its values.       *)
(*  - info_dict is a function whose DOMAIN is the set of keys present.     *)
(*  - A line written to sys.stdout is [ind, key, val]: ind spaces, the     *)
(*    text before the colon, and the text between the double quotes        *)
(*    (PyNone for a line that ends at the colon).                          *)
(*  - Assertions are enabled (the interpreter's default mode).             *)
(***************************************************************************)
EXTENDS Integers, Sequences, FiniteSets, TLC

----------------------------------------------------------------------------
(* Python values *)

PyStr(s) == [str |-> s]
PyInt(n) == [int |-> n]
PyNone == [none |-> TRUE]
PyDict(d) == [dict |-> d]
IsPyStr(v) == DOMAIN v = {"str"}
IsPyInt(v) == DOMAIN v = {"int"}

EmptyDict == [k \in {} |-> PyNone]

\* info_dict[key] = value
SetItem(d, key, value) == (key :> value) @@ d

----------------------------------------------------------------------------
(* str methods *)

EnDash == "U+2013"
Whitespace == {" ", "\t", "\n"}
Digits == <<"0", "1", "2", "3", "4", "5", "6", "7", "8", "9">>
DigitChars == {Digits[i] : i \in 1..10}
DigitVal(c) == (CHOOSE i \in 1..10 : Digits[i] = c) - 1

MinOf(S) == CHOOSE i \in S : \A j \in S : i <= j

\* str.find(sep) + 1: position of the first occurrence of sep, 0 if none
Find(s, sep) ==
    LET P == {i \in 1..(Len(s) - Len(sep) + 1) : SubSeq(s, i, i + Len(sep) - 1) = sep}
    IN IF P = {} THEN 0 ELSE MinOf(P)

\* sep in s
Contains(s, sep) == Find(s, sep) # 0

\* str.split(sep) for a non-empty separator
RECURSIVE Split(_, _)
Split(s, sep) ==
    LET i == Find(s, sep)
    IN IF i = 0 THEN <<s>>
       ELSE <<SubSeq(s, 1, i - 1)>> \o Split(SubSeq(s, i + Len(sep), Len(s)), sep)

\* str.lstrip(), str.rstrip(), str.strip()
RECURSIVE LStrip(_)
LStrip(s) == IF s # <<>> /\ Head(s) \in Whitespace THEN LStrip(Tail(s)) ELSE s

RECURSIVE RStrip(_)
RStrip(s) ==
    IF s # <<>> /\ s[Len(s)] \in Whitespace THEN RStrip(SubSeq(s, 1, Len(s) - 1)) ELSE s

Strip(s) == RStrip(LStrip(s))

\* length of the leading run of non-whitespace characters
RECURSIVE WordLen(_)
WordLen(s) == IF s = <<>> \/ Head(s) \in Whitespace THEN 0 ELSE 1 + WordLen(Tail(s))

\* str.split() with no separator: the whitespace-separated words
RECURSIVE SplitWs(_)
SplitWs(s) ==
    LET t == LStrip(s)
        n == WordLen(t)
    IN IF t = <<>> THEN <<>>
       ELSE <<SubSeq(t, 1, n)>> \o SplitWs(SubSeq(t, n + 1, Len(t)))

\* str.zfill(width): left-pad with "0" after an optional sign
RECURSIVE Zeros(_)
Zeros(n) == IF n <= 0 THEN <<>> ELSE <<"0">> \o Zeros(n - 1)

Zfill(s, width) ==
    IF Len(s) >= width THEN s
    ELSE IF s # <<>> /\ Head(s) \in {"+", "-"}
         THEN <<Head(s)>> \o Zeros(width - Len(s)) \o Tail(s)
         ELSE Zeros(width - Len(s)) \o s

\* str(n) for an int n
RECURSIVE NatToStr(_)
NatToStr(n) == IF n < 10 THEN <<Digits[n + 1]>> ELSE NatToStr(n \div 10) \o <<Digits[(n % 10) + 1]>>

IntToStr(n) == IF n < 0 THEN <<"-">> \o NatToStr(-n) ELSE NatToStr(n)

\* int(s): surrounding whitespace, one optional sign, decimal digits with
\* single underscores between them; anything else raises ValueError
Unsigned(s) == IF s # <<>> /\ Head(s) \in {"+", "-"} THEN Tail(s) ELSE s

IsIntLiteral(s) ==
    LET u == Unsigned(Strip(s))
    IN /\ u # <<>>
       /\ \A i \in 1..Len(u) : u[i] \in DigitChars \cup {"_"}
       /\ u[1] # "_" /\ u[Len(u)] # "_"
       /\ \A i \in 1..(Len(u) - 1) : ~(u[i] = "_" /\ u[i + 1] = "_")

RECURSIVE DigitsVal(_)
DigitsVal(u) ==
    IF u = <<>> THEN 0
    ELSE IF u[Len(u)] = "_" THEN DigitsVal(SubSeq(u, 1, Len(u) - 1))
    ELSE 10 * DigitsVal(SubSeq(u, 1, Len(u) - 1)) + DigitVal(u[Len(u)])

ParseInt(s) ==
    LET t == Strip(s)
    IN IF Head(t) = "-" THEN 0 - DigitsVal(Unsigned(t)) ELSE DigitsVal(Unsigned(t))

----------------------------------------------------------------------------
(* Outcome of a method: returned normally, or raised err with the          *)
(* dictionary as it stood when the exception was raised                    *)

Ok(info) == [ok |-> TRUE, err |-> "", info |-> info]
Raise(e, info) == [ok |-> FALSE, err |-> e, info |-> info]

----------------------------------------------------------------------------
(* Citation.parse_bibtex *)

CopiedKeys ==
    <<"title", "booktitle", "pages", "year", "month", "day", "journal", "volume",
      "series", "issue", "editor", "publisher", "url", "doi", "abstract">>

Range(q) == {q[i] : i \in 1..Len(q)}

\* lines 26-31: the entry type and the allow-listed fields of the entry
CopyFields(lib) ==
    [k \in {"ENTRYTYPE"} \cup (Range(CopiedKeys) \cap DOMAIN lib.fields) |->
        IF k = "ENTRYTYPE" THEN PyStr(lib.entry_type) ELSE PyStr(lib.fields[k])]

\* line 38, after line 37 has stored start
PagesEnd(info, stop) ==
    IF ~IsIntLiteral(stop) THEN Raise("ValueError", info)
    ELSE Ok(SetItem(info, "end", PyInt(ParseInt(stop))))

\* lines 37-38; int() raises ValueError
PagesRange(info, start, stop) ==
    IF ~IsIntLiteral(start) THEN Raise("ValueError", info)
    ELSE PagesEnd(SetItem(info, "start", PyInt(ParseInt(start))), stop)

\* PagesSplit with a slip: any further separator is ignored instead of refused
PagesSplit_ExtraParts(info, split_pages) ==
    IF Len(split_pages) >= 2
    THEN PagesRange(info, split_pages[1], split_pages[2])
    ELSE Ok(SetItem(info, "start", PyStr(split_pages[1])))

\* lines 36-42
PagesSplit(info, split_pages) ==
    IF Len(split_pages) = 2
    THEN PagesRange(info, split_pages[1], split_pages[2])
    ELSE IF Len(split_pages) = 1
    THEN Ok(SetItem(info, "start", PyStr(split_pages[1])))
    ELSE Raise("AssertionError", info)

\* lines 33-42
ParsePages(info) ==
    IF "pages" \notin DOMAIN info THEN Ok(info)
    ELSE PagesSplit(info, Split(info["pages"].str, <<EnDash>>))

\* lines 53-55: "Last, First", parts is author_name.split(',')
CommaName(author_name, parts) ==
    IF Len(parts) # 2 THEN [ok |-> FALSE]
    ELSE [ok |-> TRUE,
          author |-> [full_name |-> Strip(author_name),
                      first_name |-> Strip(parts[2]),
                      last_name |-> Strip(parts[1])]]

\* PlainName with a slip: a name of more than two pieces is cut to its first
\* two instead of refused
PlainName_ManyPieces(author_name, parts) ==
    IF Len(parts) < 2 THEN [ok |-> FALSE]
    ELSE [ok |-> TRUE,
          author |-> [full_name |-> Strip(author_name),
                      first_name |-> Strip(parts[1]),
                      last_name |-> Strip(parts[2])]]

\* lines 57-60: "First Last", parts is author_name.split()
PlainName(author_name, parts) ==
    IF Len(parts) # 2 THEN [ok |-> FALSE]
    ELSE [ok |-> TRUE,
          author |-> [full_name |-> Strip(author_name),
                      first_name |-> Strip(parts[1]),
                      last_name |-> Strip(parts[2])]]

\* lines 51-60: one element of author_list; ok is FALSE when its assert fails
ParseAuthorName(author_name) ==
    IF Contains(author_name, <<",">>)
    THEN CommaName(author_name, Split(author_name, <<",">>))
    ELSE PlainName(author_name, SplitWs(author_name))

AndSep == <<" ", "a", "n", "d", " ">>

\* lines 47-61: names is the list of the parsed elements of author_list
AuthorDict(info, names) ==
    IF \A i \in 1..Len(names) : names[i].ok
    THEN Ok(SetItem(info, "author_dict", PyDict([i \in 1..Len(names) |-> names[i].author])))
    ELSE Raise("AssertionError", info)

\* lines 46-61
AuthorList(info, author_list) ==
    AuthorDict(SetItem(info, "n_authors", PyInt(Len(author_list))),
               [i \in 1..Len(author_list) |-> ParseAuthorName(author_list[i])])

\* lines 45-63
ParseAuthors(info, lib) ==
    IF "author" \in DOMAIN lib.fields
    THEN AuthorList(info, Split(lib.fields["author"], AndSep))
    ELSE Ok(SetItem(info, "author", PyNone))

\* lines 44-65, p is the outcome of lines 33-42
AfterPages(p, lib) == IF ~p.ok THEN p ELSE ParseAuthors(p.info, lib)

\* lines 17-65
ParseBibtex(lib) ==
    IF lib.n # 1 THEN Raise("AssertionError", EmptyDict)
    ELSE AfterPages(ParsePages(CopyFields(lib)), lib)

----------------------------------------------------------------------------
(* Citation.prep_info_for_export *)

Unbound == [unbound |-> TRUE]

\* str(v), and the text an f-string substitutes for {v}
ToStr(v) == IF IsPyInt(v) THEN IntToStr(v.int) ELSE IF IsPyStr(v) THEN v.str ELSE <<"N", "o", "n", "e">>

\* One pass through the body of "while find_date", lines 77-103.  L holds
\* the method's local variables and the dictionary; idk is a view of the keys
\* of the dictionary, DOMAIN L.info; dt is datetime.now().

\* lines 77-81
DateGiven(L) ==
    IF "date-released" \in DOMAIN L.info THEN [L EXCEPT !.find_date = FALSE]
    ELSE IF "date" \in DOMAIN L.info
    THEN [L EXCEPT !.info = SetItem(L.info, "date-released", L.info["date"]),
                   !.find_date = FALSE]
    ELSE L

\* line 83
DateConstruct(L) == [L EXCEPT !.construct_date = TRUE]

\* lines 85-91
DateYear(L, dt) ==
    IF "year" \in DOMAIN L.info THEN [L EXCEPT !.year = L.info["year"]]
    ELSE [L EXCEPT !.year = PyInt(dt.year), !.month = PyInt(dt.month),
                   !.day = PyInt(dt.day), !.find_date = FALSE]

\* lines 92-97
DateMonth(L) ==
    IF "month" \in DOMAIN L.info THEN [L EXCEPT !.month = L.info["month"]]
    ELSE [L EXCEPT !.month = PyInt(1), !.day = PyInt(1), !.find_date = FALSE]

\* lines 98-103
DateDay(L) ==
    IF "day" \in DOMAIN L.info THEN [L EXCEPT !.day = L.info["day"], !.find_date = FALSE]
    ELSE [L EXCEPT !.day = PyInt(1), !.find_date = FALSE]

\* lines 77-103
DateLoopBody(L, dt) == DateDay(DateMonth(DateYear(DateConstruct(DateGiven(L)), dt)))

\* lines 74-76: while find_date
RECURSIVE DateLoop(_, _)
DateLoop(L, dt) == IF L.find_date THEN DateLoop(DateLoopBody(L, dt), dt) ELSE L

\* line 107: the f-string
FormatDate(year, month, day) ==
    ToStr(year) \o <<"-">> \o Zfill(ToStr(month), 2) \o <<"-">> \o Zfill(ToStr(day), 2)

\* lines 106-107
DateReleased(L) ==
    IF L.construct_date
    THEN SetItem(L.info, "date-released", PyStr(FormatDate(L.year, L.month, L.day)))
    ELSE L.info

\* lines 73-107
PrepDate(info, dt) ==
    DateReleased(DateLoop([find_date |-> TRUE, construct_date |-> FALSE, info |-> info,
                           year |-> Unbound, month |-> Unbound, day |-> Unbound], dt))

\* lines 111-114
type_mapping_bib_to_cff ==
    [t \in {"article", "book", "booklet", "inproceedings", "proceedings", "misc", "manual",
            "software", "techreport", "unpublished"} |->
        CASE t = "booklet" -> "pamphlet"
          [] t = "inproceedings" -> "conference-paper"
          [] t = "misc" -> "generic"
          [] t = "techreport" -> "report"
          [] OTHER -> t]

\* PrepType with a slip: dict.get with the default "generic" instead of the
\* subscript
PrepType_DefaultGeneric(info) ==
    IF "ENTRYTYPE" \in DOMAIN info
    THEN IF info["ENTRYTYPE"].str \in DOMAIN type_mapping_bib_to_cff
         THEN Ok(SetItem(info, "cff_type", PyStr(type_mapping_bib_to_cff[info["ENTRYTYPE"].str])))
         ELSE Ok(SetItem(info, "cff_type", PyStr("generic")))
    ELSE Ok(info)

\* lines 110-115; the subscript raises KeyError for a type that is not a key
PrepType(info) ==
    IF "ENTRYTYPE" \in DOMAIN info
    THEN IF info["ENTRYTYPE"].str \in DOMAIN type_mapping_bib_to_cff
         THEN Ok(SetItem(info, "cff_type", PyStr(type_mapping_bib_to_cff[info["ENTRYTYPE"].str])))
         ELSE Raise("KeyError", info)
    ELSE Ok(info)

\* lines 118-120
PrepJournal(info) ==
    IF "journal" \notin DOMAIN info /\ "series" \in DOMAIN info
    THEN SetItem(info, "journal", info["series"])
    ELSE info

\* lines 123-126
PrepConference(info) ==
    IF /\ "cff_type" \in DOMAIN info
       /\ info["cff_type"] = PyStr("conference-paper")
       /\ "booktitle" \in DOMAIN info
       /\ "conference" \notin DOMAIN info
    THEN SetItem(info, "conference", info["booktitle"])
    ELSE info

\* lines 117-126, t is the outcome of lines 109-115
AfterType(t) == IF ~t.ok THEN t ELSE Ok(PrepConference(PrepJournal(t.info)))

\* lines 67-126
PrepInfoForExport(info, provided, dt) ==
    IF ~provided THEN Raise("AssertionError", info)
    ELSE AfterType(PrepType(PrepDate(info, dt)))

----------------------------------------------------------------------------
(* Citation.add_author_names_to_cff and Citation.export_as_cff *)

\* f.write(f'{id}{key}: "{val}"\n') and f.write(f'{id}{key}:\n')
Line(ind, key, val) == [ind |-> ind, key |-> key, val |-> PyStr(val)]
Header(ind, key) == [ind |-> ind, key |-> key, val |-> PyNone]

\* lines 141-145: the lines of one author
AuthorLines(ind, a) ==
    <<Line(ind, "  - family-names", a.last_name), Line(ind, "    given-names", a.first_name)>>
    \o (IF "orcid" \in DOMAIN a THEN <<Line(ind, "    orcid", a.orcid)>> ELSE <<>>)

RECURSIVE AllAuthorLines(_, _)
AllAuthorLines(ind, ad) ==
    IF ad = <<>> THEN <<>> ELSE AuthorLines(ind, Head(ad)) \o AllAuthorLines(ind, Tail(ad))

\* lines 128-145; lines is what the method wrote
AddAuthorNamesToCff(info, indent_n_spaces) ==
    IF \/ "author_dict" \notin DOMAIN info
       \/ info["n_authors"] # PyInt(Len(info["author_dict"].dict))
       \/ Len(info["author_dict"].dict) = 0
    THEN [ok |-> FALSE, err |-> "AssertionError", lines |-> <<>>]
    ELSE [ok |-> TRUE, err |-> "",
          lines |-> <<Header(indent_n_spaces, "authors")>>
                    \o AllAuthorLines(indent_n_spaces, info["author_dict"].dict)]

\* CitationKeys with a slip: volume before issue
CitationKeys_VolumeFirst ==
    <<"doi", "url", "date-released", "volume", "issue", "journal", "title", "booktitle",
      "editor", "series", "publisher", "start", "end">>

\* lines 177-178
CitationKeys ==
    <<"doi", "url", "date-released", "issue", "volume", "journal", "title", "booktitle",
      "editor", "series", "publisher", "start", "end">>

\* lines 177-180
RECURSIVE CitationLines(_, _)
CitationLines(info, keys) ==
    IF keys = <<>> THEN <<>>
    ELSE (IF Head(keys) \in DOMAIN info
          THEN <<Line(0, "  " \o Head(keys), ToStr(info[Head(keys)]))>> ELSE <<>>)
         \o CitationLines(info, Tail(keys))

\* lines 153-162 up to the point where the title is read
ExportHead(info) ==
    <<Line(0, "date-released", ToStr(info["date-released"]))>>
    \o (IF "doi" \in DOMAIN info THEN <<Line(0, "doi", ToStr(info["doi"]))>>
        ELSE IF "repo_doi" \in DOMAIN info THEN <<Line(0, "doi", ToStr(info["repo_doi"]))>>
        ELSE <<>>)

\* lines 159-162
ExportTitle(info, cff_version) ==
    <<Line(0, "title", ToStr(info["title"])), Line(0, "cff-version", cff_version)>>
    \o (IF "repo_version" \in DOMAIN info
        THEN <<Line(0, "version", ToStr(info["repo_version"]))>> ELSE <<>>)

\* lines 166-180
ExportCitation(info) ==
    <<Header(0, "preferred-citation")>>
    \o (IF "cff_type" \in DOMAIN info THEN <<Line(0, "  type", ToStr(info["cff_type"]))>>
        ELSE <<Line(0, "  type", "generic")>>)
    \o (IF "publisher" \in DOMAIN info
        THEN <<Header(0, "  publisher"), Line(0, "    name", ToStr(info["publisher"]))>>
        ELSE <<>>)
    \o (IF "conference" \in DOMAIN info
        THEN <<Header(0, "  conference"), Line(0, "    name", ToStr(info["conference"]))>>
        ELSE <<>>)
    \o CitationLines(info, CitationKeys)

Wrote(ok, e, info, lines) == [ok |-> ok, err |-> e, info |-> info, lines |-> lines]

\* line 182, w is what lines 153-180 wrote
ExportNested(info, w, nested) ==
    IF ~nested.ok THEN Wrote(FALSE, nested.err, info, w)
    ELSE Wrote(TRUE, "", info, w \o nested.lines)

\* lines 164-182, w is what lines 153-162 wrote
ExportAuthors(info, w, top) ==
    IF ~top.ok THEN Wrote(FALSE, top.err, info, w)
    ELSE ExportNested(info, w \o top.lines \o ExportCitation(info), AddAuthorNamesToCff(info, 2))

\* lines 159-182, w is what lines 153-158 wrote; the subscript raises
\* KeyError when there is no title
ExportFrom(info, w, cff_version) ==
    IF "title" \notin DOMAIN info THEN Wrote(FALSE, "KeyError", info, w)
    ELSE ExportAuthors(info, w \o ExportTitle(info, cff_version), AddAuthorNamesToCff(info, 0))

\* lines 152-182, p is the outcome of line 150
ExportPrepared(p, cff_version) ==
    IF ~p.ok THEN Wrote(FALSE, p.err, p.info, <<>>)
    ELSE ExportFrom(p.info, ExportHead(p.info), cff_version)

\* lines 147-182; lines is what reached sys.stdout, in order, when the method
\* returned or raised
ExportAsCff(info, provided, dt, cff_version) ==
    ExportPrepared(PrepInfoForExport(info, provided, dt), cff_version)

----------------------------------------------------------------------------
(* process and main *)

Processed(e, object) ==
    [ok |-> e.ok, err |-> e.err, info |-> e.info, lines |-> e.lines, object |-> object]

\* line 188, c is the outcome of line 187
ProcessCitation(c, dt) ==
    IF ~c.ok THEN Processed(Wrote(FALSE, c.err, c.info, <<>>), FALSE)
    ELSE Processed(ExportAsCff(c.info, TRUE, dt, "1.2.0"), TRUE)

\* lines 184-188: process(args, file_name, file_input) on the library that
\* bibtexparser makes of the input; object is FALSE when Citation() raised
Process(lib, dt) == ProcessCitation(ParseBibtex(lib), dt)

----------------------------------------------------------------------------
(* Inputs *)

MaxMissing == 1
MaxExtra == 1
MaxExports == 1
MaxFiles == 2
MaxAuthorLen == 5
MaxPagesLen == 4

EntryTypes == DOMAIN type_mapping_bib_to_cff \cup {"weird"}

\* keys an entry may carry: the allow-list, author, and one key outside both
AllFields == Range(CopiedKeys) \cup {"author", "note"}

\* keys that prep_info_for_export and export_as_cff read but parse_bibtex
\* never writes: the owner of the Citation object stores them
ExtraKeys == {"date", "date-released", "conference", "repo_doi", "repo_version"}

SampleValue(k) ==
    CASE k = "year" -> <<"2", "0", "2", "0">>
      [] k = "month" -> <<"5">>
      [] k = "day" -> <<"1", "2">>
      [] k = "pages" -> <<"1", EnDash, "1", "0">>
      [] k = "author" -> <<"D", ",", " ", "J", " ", "a", "n", "d", " ", "A", " ", "B">>
      [] k = "date" -> <<"2", "0", "1", "9", "-", "0", "5", "-", "0", "3">>
      [] k = "date-released" -> <<"2", "0", "1", "8", "-", "0", "1", "-", "0", "2">>
      [] k = "title" -> <<"T">>
      [] k = "booktitle" -> <<"B">>
      [] k = "journal" -> <<"J">>
      [] k = "series" -> <<"S">>
      [] k = "volume" -> <<"7">>
      [] k = "issue" -> <<"3">>
      [] k = "editor" -> <<"E">>
      [] k = "publisher" -> <<"P">>
      [] k = "url" -> <<"U">>
      [] k = "doi" -> <<"1", "0", ".", "1">>
      [] k = "repo_doi" -> <<"1", "0", ".", "2">>
      [] k = "repo_version" -> <<"v", "1">>
      [] k = "conference" -> <<"C">>
      [] OTHER -> <<"x">>

SampleFields(S) == [k \in S |-> SampleValue(k)]

Library(n, t, fields) == [n |-> n, entry_type |-> t, fields |-> fields]

\* entries that carry at most MaxMissing fields, or all but at most MaxMissing
FieldSets ==
    {S \in SUBSET AllFields :
        Cardinality(S) <= MaxMissing \/ Cardinality(AllFields \ S) <= MaxMissing}

\* the entry types whose entries differ in more than the mapped type: an
\* ordinary one, the conference paper, the one mapped to "generic", and one
\* that is not in the table
VariedTypes == {"article", "inproceedings", "misc", "weird"}

Libraries ==
    {Library(1, t, SampleFields(S)) : t \in VariedTypes, S \in FieldSets}
    \cup {Library(1, t, SampleFields(AllFields)) : t \in EntryTypes}
    \cup {Library(n, "article", SampleFields(AllFields)) : n \in {0, 2}}

\* all strings of exactly n characters of the set chars
StringsOfLen(chars, n) == [1..n -> chars]

\* all strings of at most n characters of the set chars
StringsUpTo(chars, n) == UNION {StringsOfLen(chars, m) : m \in 0..n}

\* "&" stands for the separator " and "
AuthorChars == {"J", ",", " ", "&"}

RECURSIVE Expand(_)
Expand(w) ==
    IF w = <<>> THEN <<>>
    ELSE (IF Head(w) = "&" THEN AndSep ELSE <<Head(w)>>) \o Expand(Tail(w))

\* author fields: every string of at most MaxAuthorLen characters of
\* AuthorChars, counting a separator as one, and some names as they are written
AuthorStrings ==
    {Expand(w) : w \in StringsUpTo(AuthorChars, MaxAuthorLen)}
    \cup {<<"D", "o", "e", ",", " ", "J", " ", "a", "n", "d", " ", "S", "m", "i", ",", "A">>,
          <<"D", "o", "e", ",", " ", "J", " ", "a", "n", "d", " ", "A", "l", " ", "B", "o", "b">>,
          <<"R", "a", "n", "d", " ", "S", "a", "n", "d", "s">>,
          <<"J", " ", "Q", " ", "D", "o", "e">>,
          <<"A", " ", "B", " ", "a", "n", "d", " ", " ", "a", "n", "d", " ", "C", " ", "D">>}

AuthorLibraries ==
    {Library(1, "article", ("title" :> SampleValue("title")) @@ ("author" :> a)) :
        a \in AuthorStrings}

PagesChars == {"1", "2", "e", " ", EnDash}

\* pages fields
PagesStrings ==
    StringsUpTo(PagesChars, MaxPagesLen)
    \cup {<<"1", "2", EnDash, "2", "0">>, <<"4", "5">>, <<"e", "1", "2", "3">>,
          <<"1", "2", "-", "2", "0">>, <<"+", "1", EnDash, "1", "_", "0">>,
          <<"1", EnDash, "2", EnDash, "3">>}

PagesLibraries ==
    {Library(1, "article", ("title" :> SampleValue("title")) @@ ("pages" :> p)) :
        p \in PagesStrings}

\* readings of datetime.now(): a day that is not 1 January, and the next
\* 1 January
StartDate == [year |-> 2025, month |-> 11, day |-> 4]
ClockDates == {StartDate, [year |-> 2026, month |-> 1, day |-> 1]}

Later(a, b) ==
    \/ a.year < b.year
    \/ a.year = b.year /\ a.month < b.month
    \/ a.year = b.year /\ a.month = b.month /\ a.day < b.day

----------------------------------------------------------------------------
(* State *)

VARIABLES
    library,          \* what bibtexparser.parse_string returns for the input
    info_dict,        \* Citation.info_dict
    bibtex_provided,  \* Citation.bibtex_provided
    out,              \* the lines written to sys.stdout
    pc,               \* "new": no Citation yet; "ready": constructed; "raised"
    err,              \* the exception that the last call raised, "" if none
    now,              \* the calendar date
    call,             \* the last method call on the object: method, info_dict
                      \* and Len(out) on entry, date read, whether it returned
    exports,          \* number of export_as_cff calls so far
    files,            \* args.file
    nfile,            \* number of iterations of main's loop started
    processed,        \* indices of args.file on which process() was called
    mainpc            \* "idle": imported as a module; "loop"; "done"; "crashed"

vars == <<library, info_dict, bibtex_provided, out, pc, err, now, call, exports,
          files, nfile, processed, mainpc>>

objvars == <<library, info_dict, bibtex_provided, out, pc, err, call, exports>>
mainvars == <<files, nfile, processed, mainpc>>

NoCall == [op |-> "none", info |-> EmptyDict, nout |-> 0, at |-> now, ok |-> TRUE]
Call(op, ok) == [op |-> op, info |-> info_dict, nout |-> Len(out), at |-> now, ok |-> ok]

InitObject ==
    /\ info_dict = EmptyDict
    /\ bibtex_provided = FALSE
    /\ out = <<>>
    /\ pc = "new"
    /\ err = ""
    /\ now = StartDate
    /\ call = NoCall
    /\ exports = 0

InitIdle ==
    /\ files = <<>>
    /\ nfile = 0
    /\ processed = {}
    /\ mainpc = "idle"

Init ==
    /\ library \in Libraries
    /\ InitObject
    /\ InitIdle

----------------------------------------------------------------------------
(* Operations on one Citation object *)

\* the method op ends with outcome r: the dictionary it leaves, and the
\* exception if it raised
Returned(op, r) ==
    /\ info_dict' = r.info
    /\ pc' = IF r.ok THEN "ready" ELSE "raised"
    /\ err' = r.err
    /\ call' = Call(op, r.ok)

\* export_as_cff ends with outcome e, its lines on sys.stdout
Wrote2Stdout(e) ==
    /\ Returned("export_as_cff", e)
    /\ out' = out \o e.lines

\* lines 9-14: citation = Citation(bibtex_string)
Construct ==
    /\ pc = "new"
    /\ mainpc = "idle"
    /\ Returned("__init__", ParseBibtex(library))
    /\ bibtex_provided' = (pc' = "ready")    \* line 65 is reached only without exception
    /\ UNCHANGED <<library, out, now, exports, mainvars>>

\* citation.info_dict[key] = value, by the owner of the object, before the
\* first preparation or export
SetInfo ==
    /\ pc = "ready"
    /\ mainpc = "idle"
    /\ call.op = "__init__"
    /\ Cardinality(DOMAIN info_dict \cap ExtraKeys) < MaxExtra
    /\ \E key \in ExtraKeys \ DOMAIN info_dict :
          info_dict' = SetItem(info_dict, key, PyStr(SampleValue(key)))
    /\ UNCHANGED <<library, bibtex_provided, out, pc, err, now, call, exports, mainvars>>

\* lines 67-126: citation.prep_info_for_export()
Prep ==
    /\ pc = "ready"
    /\ mainpc = "idle"
    /\ Returned("prep_info_for_export", PrepInfoForExport(info_dict, bibtex_provided, now))
    /\ UNCHANGED <<library, bibtex_provided, out, now, exports, mainvars>>

\* lines 147-182: citation.export_as_cff()
Export ==
    /\ pc = "ready"
    /\ mainpc = "idle"
    /\ exports < MaxExports
    /\ Wrote2Stdout(ExportAsCff(info_dict, bibtex_provided, now, "1.2.0"))
    /\ exports' = exports + 1
    /\ UNCHANGED <<library, bibtex_provided, now, mainvars>>

\* the calendar date advances between two calls
Tick ==
    /\ pc = "ready"
    /\ \E d \in ClockDates : Later(now, d) /\ now' = d
    /\ UNCHANGED <<objvars, mainvars>>

Next == Construct \/ SetInfo \/ Prep \/ Export \/ Tick

Spec == Init /\ [][Next]_vars

----------------------------------------------------------------------------
(* parse_bibtex over author fields, and over pages fields *)

InitAuthors ==
    /\ library \in AuthorLibraries
    /\ InitObject
    /\ InitIdle

InitPages ==
    /\ library \in PagesLibraries
    /\ InitObject
    /\ InitIdle

NextParse == Construct

SpecAuthors == InitAuthors /\ [][NextParse]_vars

SpecPages == InitPages /\ [][NextParse]_vars

----------------------------------------------------------------------------
(* main *)

\* what a file argument names: stdin or a file that open() can or cannot
\* open, and the library that bibtexparser makes of its text
FileLibraries ==
    {Library(1, "article", SampleFields({"title", "author", "year"})),
     Library(1, "article", SampleFields({"author", "year"})),
     Library(1, "weird", SampleFields({"title", "author"})),
     Library(2, "article", SampleFields({"title", "author"}))}

FileArgs ==
    {[name |-> "-", readable |-> TRUE, lib |-> l] : l \in FileLibraries}
    \cup {[name |-> "f.bib", readable |-> TRUE, lib |-> l] : l \in FileLibraries}
    \cup {[name |-> "f.bib", readable |-> FALSE, lib |-> Library(0, "", SampleFields({}))]}

InitMain ==
    /\ files \in UNION {[1..n -> FileArgs] : n \in 0..MaxFiles}
    /\ nfile = 0
    /\ processed = {}
    /\ mainpc = "loop"
    /\ library = Library(0, "", SampleFields({}))
    /\ InitObject

\* lines 202 and 205: process() ends with outcome r
RanProcess(r) ==
    /\ Returned("process", r)
    /\ out' = out \o r.lines
    /\ bibtex_provided' = r.object
    /\ exports' = IF r.object THEN 1 ELSE 0
    /\ mainpc' = IF r.ok THEN "loop" ELSE "crashed"

\* lines 201-205: the body of the loop for one element of args.file
RunFile(arg) ==
    IF arg.name # "-" /\ ~arg.readable
    THEN \* open(file_name) raises
         /\ mainpc' = "crashed"
         /\ err' = "OSError"
         /\ UNCHANGED <<library, info_dict, bibtex_provided, out, pc, call, exports, processed>>
    ELSE /\ processed' = processed \cup {nfile + 1}
         /\ library' = arg.lib
         /\ RanProcess(Process(arg.lib, now))

\* lines 200-205: one iteration of "for file_name in args.file"
ProcessFile ==
    /\ mainpc = "loop"
    /\ nfile < Len(files)
    /\ nfile' = nfile + 1
    /\ RunFile(files[nfile + 1])
    /\ UNCHANGED <<now, files>>

\* the loop is exhausted and main returns
MainReturn ==
    /\ mainpc = "loop"
    /\ nfile = Len(files)
    /\ mainpc' = "done"
    /\ UNCHANGED <<objvars, now, files, nfile, processed>>

NextMain == ProcessFile \/ MainReturn

SpecMain == InitMain /\ [][NextMain]_vars

----------------------------------------------------------------------------
(* Properties *)

\* the lines that the last method call wrote
Written == SubSeq(out, call.nout + 1, Len(out))

Prepared == call.op = "prep_info_for_export" /\ call.ok
Exported == call.op = "export_as_cff" /\ call.ok

\* C1: a conversion that fails has written no line: when Citation() or
\* export_as_cff raised, the output is as long as it was when the call began.
C1_FailedConversionWritesNothing ==
    (call.op \in {"__init__", "export_as_cff"} /\ ~call.ok) => Len(out) = call.nout

\* C2: after a preparation, a date-released that the model held before is
\* unchanged, and otherwise a date that the model held is the date-released.
C2_DateCascade ==
    Prepared =>
        IF "date-released" \in DOMAIN call.info
        THEN info_dict["date-released"] = call.info["date-released"]
        ELSE "date" \in DOMAIN call.info => info_dict["date-released"] = call.info["date"]

\* the date that C3 states for a model without date-released and date:
\* a part of the model where present; else 1 for month and day when the year
\* is present, and the current date's part when the year is absent
C3_Part(info, dt, part) ==
    IF part \in DOMAIN info THEN info[part]
    ELSE IF part = "year" THEN PyInt(dt.year)
    ELSE IF "year" \in DOMAIN info THEN PyInt(1)
    ELSE IF part = "month" THEN PyInt(dt.month) ELSE PyInt(dt.day)

C3_Date(info, dt) ==
    FormatDate(C3_Part(info, dt, "year"), C3_Part(info, dt, "month"), C3_Part(info, dt, "day"))

\* C3: with neither date-released nor date in the model, preparation sets
\* date-released to year-month-day, zero-padded, where month and day default
\* to 1 when the year is present and to today's month and day when it is not.
C3_ConstructedDate ==
    (Prepared /\ "date-released" \notin DOMAIN call.info /\ "date" \notin DOMAIN call.info)
        => info_dict["date-released"] = PyStr(C3_Date(call.info, call.at))

\* C4: a preparation that directly follows a preparation of the same object
\* changes no field of the model.
C4_PrepIdempotent ==
    [][(Prepared /\ Prepared') => info_dict' = info_dict]_vars

\* C5: when main has ended, the loop has gone on to the file after every
\* file it called process on, whether or not that call raised.
C5_NextFileAttempted ==
    mainpc \in {"done", "crashed"} =>
        \A i \in processed : i < Len(files) => nfile >= i + 1

CountOf(s, c) == Cardinality({i \in 1..Len(s) : s[i] = c})

\* the positions at which a whitespace-separated piece of s begins
WordStarts(s) ==
    {i \in 1..Len(s) : s[i] \notin Whitespace /\ (i = 1 \/ s[i - 1] \in Whitespace)}

\* the piece of s that begins at position i
WordAt(s, i) ==
    SubSeq(s, i, MinOf({j \in i..Len(s) : j = Len(s) \/ s[j + 1] \in Whitespace}))

\* C6's rule of acceptance for one element of the author list
C6_Accepted(tok) ==
    IF CountOf(tok, ",") > 0 THEN CountOf(tok, ",") = 1
    ELSE Cardinality(WordStarts(tok)) = 2

\* C6's names of an accepted element
C6_Names(tok) ==
    IF CountOf(tok, ",") > 0
    THEN LET c == CHOOSE i \in 1..Len(tok) : tok[i] = ","
         IN [last_name |-> Strip(SubSeq(tok, 1, c - 1)),
             first_name |-> Strip(SubSeq(tok, c + 1, Len(tok)))]
    ELSE LET st == WordStarts(tok)
         IN [first_name |-> WordAt(tok, MinOf(st)),
             last_name |-> WordAt(tok, CHOOSE i \in st : i # MinOf(st))]

\* C6: parse_bibtex splits the author field on " and "; it accepts an element
\* with a comma exactly when it has one comma (last name before it, first name
\* after it, trimmed) and an element without comma exactly when it has two
\* whitespace-separated pieces (first name, then last name); if every element
\* is accepted the authors are stored in source order and n_authors is their
\* number, otherwise the constructor raises and no author_dict is stored.
C6_AuthorParsing ==
    (call.op = "__init__" /\ "author" \in DOMAIN library.fields) =>
        LET toks == Split(library.fields["author"], AndSep)
        IN IF \A i \in 1..Len(toks) : C6_Accepted(toks[i])
           THEN /\ call.ok /\ pc = "ready"
                /\ info_dict["n_authors"] = PyInt(Len(toks))
                /\ Len(info_dict["author_dict"].dict) = Len(toks)
                /\ \A i \in 1..Len(toks) :
                      /\ info_dict["author_dict"].dict[i].first_name = C6_Names(toks[i]).first_name
                      /\ info_dict["author_dict"].dict[i].last_name = C6_Names(toks[i]).last_name
           ELSE /\ ~call.ok /\ pc = "raised"
                /\ "author_dict" \notin DOMAIN info_dict

\* two authors stored, the first written "Last, First" and the second
\* "First Last" with names of different lengths
C6_Witness ==
    /\ call.op = "__init__" /\ call.ok
    /\ "author_dict" \in DOMAIN info_dict
    /\ LET toks == Split(library.fields["author"], AndSep)
           ad == info_dict["author_dict"].dict
       IN /\ Len(ad) = 2
          /\ CountOf(toks[1], ",") = 1 /\ ad[1].first_name # <<>> /\ ad[1].last_name # <<>>
          /\ CountOf(toks[2], ",") = 0 /\ Len(ad[2].first_name) # Len(ad[2].last_name)

\* C7: every stored author has a non-empty first name and a non-empty last
\* name, both substrings of the trimmed full name.
C7_NamesNonEmpty ==
    (call.op = "__init__" /\ call.ok /\ "author_dict" \in DOMAIN info_dict) =>
        \A i \in 1..Len(info_dict["author_dict"].dict) :
            LET a == info_dict["author_dict"].dict[i]
            IN /\ a.first_name # <<>> /\ a.last_name # <<>>
               /\ Contains(a.full_name, a.first_name)
               /\ Contains(a.full_name, a.last_name)

\* the constructor raised and left no usable model
C8_Failed == ~call.ok /\ pc = "raised" /\ ~bibtex_provided

\* C8: parse_bibtex splits pages on the en-dash: no en-dash, start is the raw
\* string and there is no end; one en-dash, start and end are the integers on
\* its two sides when both sides parse as integers and the constructor raises
\* otherwise; two or more, the constructor raises.
C8_PagesParsing ==
    (call.op = "__init__" /\ "pages" \in DOMAIN library.fields) =>
        LET p == library.fields["pages"]
            n == CountOf(p, EnDash)
            d == CHOOSE i \in 1..Len(p) : p[i] = EnDash
            a == SubSeq(p, 1, d - 1)
            b == SubSeq(p, d + 1, Len(p))
        IN /\ n = 0 => /\ call.ok
                       /\ info_dict["start"] = PyStr(p)
                       /\ "end" \notin DOMAIN info_dict
           /\ n = 1 => IF IsIntLiteral(a) /\ IsIntLiteral(b)
                       THEN /\ call.ok
                            /\ info_dict["start"] = PyInt(ParseInt(a))
                            /\ info_dict["end"] = PyInt(ParseInt(b))
                       ELSE C8_Failed
           /\ n >= 2 => C8_Failed
           /\ p = <<"1", "2", EnDash, "2", "0">> =>
                  info_dict["start"] = PyInt(12) /\ info_dict["end"] = PyInt(20)
           /\ p = <<"4", "5">> => info_dict["start"] = PyStr(<<"4", "5">>)
           /\ p = <<"1", EnDash, "2", EnDash, "3">> => C8_Failed

\* "12-20" written with the en-dash has been parsed
C8_Witness ==
    /\ call.op = "__init__" /\ call.ok
    /\ "pages" \in DOMAIN library.fields
    /\ library.fields["pages"] = <<"1", "2", EnDash, "2", "0">>
    /\ info_dict["start"] = PyInt(12) /\ info_dict["end"] = PyInt(20)

\* the table of C9, as pairs
C9_Table ==
    {<<"article", "article">>, <<"book", "book">>, <<"booklet", "pamphlet">>,
     <<"inproceedings", "conference-paper">>, <<"proceedings", "proceedings">>,
     <<"misc", "generic">>, <<"manual", "manual">>, <<"software", "software">>,
     <<"techreport", "report">>, <<"unpublished", "unpublished">>}

C9_Known(t) == \E pr \in C9_Table : pr[1] = t

C9_TypeLines == {i \in 1..Len(out) : out[i].key = "  type"}

\* C9: cff_type is the table's value for the entry type; for an entry type
\* outside the table the preparation raises, cff_type is never set and no
\* type line is written; a type line "generic" is written only for an entry
\* of type misc or a model without entry type.
C9_TypeMapping ==
    /\ "cff_type" \in DOMAIN info_dict =>
           <<info_dict["ENTRYTYPE"].str, info_dict["cff_type"].str>> \in C9_Table
    /\ (call.op \in {"prep_info_for_export", "export_as_cff"} /\ call.ok) =>
           "cff_type" \in DOMAIN info_dict
    /\ (call.op \in {"prep_info_for_export", "export_as_cff"}
           /\ ~C9_Known(library.entry_type)) =>
           ~call.ok /\ err = "KeyError"
    /\ ~C9_Known(library.entry_type) =>
           "cff_type" \notin DOMAIN info_dict /\ C9_TypeLines = {}
    /\ \A i \in C9_TypeLines :
           out[i].val = PyStr("generic") =>
               \/ "ENTRYTYPE" \notin DOMAIN info_dict
               \/ info_dict["ENTRYTYPE"] = PyStr("misc")

\* an entry of a type outside the table: the export has raised KeyError
C9_Witness ==
    /\ library.entry_type = "weird"
    /\ "title" \in DOMAIN info_dict
    /\ call.op = "export_as_cff" /\ ~call.ok /\ err = "KeyError"

\* the lines of the last call apart from the lines of the author entries
IsAuthorItem(l) == l.key \in {"  - family-names", "    given-names", "    orcid"}
C10_Core == SelectSeq(Written, LAMBDA l : ~IsAuthorItem(l))
C10_AuthorItems(ind) == SelectSeq(Written, LAMBDA l : IsAuthorItem(l) /\ l.ind = ind)

\* a line without its value: indentation, key, and whether a value follows
C10_Label(l) == <<l.ind, l.key, l.val # PyNone>>

\* the order of C10
C10_Order ==
    <<<<0, "date-released", TRUE>>, <<0, "doi", TRUE>>, <<0, "title", TRUE>>,
      <<0, "cff-version", TRUE>>, <<0, "version", TRUE>>, <<0, "authors", FALSE>>,
      <<0, "preferred-citation", FALSE>>, <<0, "  type", TRUE>>,
      <<0, "  publisher", FALSE>>, <<0, "    name", TRUE>>,
      <<0, "  conference", FALSE>>, <<0, "    name", TRUE>>,
      <<0, "  doi", TRUE>>, <<0, "  url", TRUE>>, <<0, "  date-released", TRUE>>,
      <<0, "  issue", TRUE>>, <<0, "  volume", TRUE>>, <<0, "  journal", TRUE>>,
      <<0, "  title", TRUE>>, <<0, "  booktitle", TRUE>>, <<0, "  editor", TRUE>>,
      <<0, "  series", TRUE>>, <<0, "  publisher", TRUE>>, <<0, "  start", TRUE>>,
      <<0, "  end", TRUE>>, <<2, "authors", FALSE>>>>

C10_NestedKeys ==
    {"doi", "url", "date-released", "issue", "volume", "journal", "title", "booktitle",
     "editor", "series", "publisher", "start", "end"}

\* a is b with some elements left out
RECURSIVE IsSubsequence(_, _)
IsSubsequence(a, b) ==
    IF a = <<>> THEN TRUE
    ELSE IF b = <<>> THEN FALSE
    ELSE IF Head(a) = Head(b) THEN IsSubsequence(Tail(a), Tail(b))
    ELSE IsSubsequence(a, Tail(b))

\* the positions in core of the lines with a label
C10_At(core, label) == {i \in 1..Len(core) : C10_Label(core[i]) = label}

\* core has the line with this label and the text of v as its value
C10_Has(core, label, v) == \E i \in C10_At(core, label) : core[i].val = PyStr(ToStr(v))

\* core has the line of a key of info exactly when the key is present
C10_Emits(core, label, info, key) ==
    IF key \in DOMAIN info THEN C10_Has(core, label, info[key])
    ELSE C10_At(core, label) = {}

\* core has the header with the name under it exactly when the key is present
C10_EmitsObject(core, header, info, key) ==
    IF key \in DOMAIN info
    THEN \E i \in C10_At(core, <<0, header, FALSE>>) :
            /\ i < Len(core)
            /\ core[i + 1] = Line(0, "    name", ToStr(info[key]))
    ELSE C10_At(core, <<0, header, FALSE>>) = {}

\* items, the lines of the author entries at one indentation, are the authors
\* ad in order, and in w they come directly after the header "authors" of
\* that indentation
C10_AuthorList(w, items, ind, ad) ==
    LET h == CHOOSE i \in 1..Len(w) : w[i] = Header(ind, "authors")
    IN /\ Len(items) = 2 * Len(ad)
       /\ \A j \in 1..Len(ad) :
             /\ items[2 * j - 1] = Line(ind, "  - family-names", ad[j].last_name)
             /\ items[2 * j] = Line(ind, "    given-names", ad[j].first_name)
       /\ SubSeq(w, h + 1, h + Len(items)) = items

\* the statement of C10 about the lines w of an export, core being w without
\* the lines of the author entries, and info the model
C10_Holds(w, core, info) ==
    /\ IsSubsequence([i \in 1..Len(core) |-> C10_Label(core[i])], C10_Order)
    /\ C10_Has(core, <<0, "date-released", TRUE>>, info["date-released"])
    /\ IF "doi" \in DOMAIN info
       THEN C10_Has(core, <<0, "doi", TRUE>>, info["doi"])
       ELSE C10_Emits(core, <<0, "doi", TRUE>>, info, "repo_doi")
    /\ C10_Has(core, <<0, "title", TRUE>>, info["title"])
    /\ \E i \in C10_At(core, <<0, "cff-version", TRUE>>) : core[i].val = PyStr("1.2.0")
    /\ C10_Emits(core, <<0, "version", TRUE>>, info, "repo_version")
    /\ C10_At(core, <<0, "authors", FALSE>>) # {}
    /\ C10_At(core, <<0, "preferred-citation", FALSE>>) # {}
    /\ C10_Has(core, <<0, "  type", TRUE>>, info["cff_type"])
    /\ C10_EmitsObject(core, "  publisher", info, "publisher")
    /\ C10_EmitsObject(core, "  conference", info, "conference")
    /\ \A k \in C10_NestedKeys : C10_Emits(core, <<0, "  " \o k, TRUE>>, info, k)
    /\ C10_AuthorList(w, C10_AuthorItems(0), 0, info["author_dict"].dict)
    /\ C10_AuthorList(w, C10_AuthorItems(2), 2, info["author_dict"].dict)
    /\ w[Len(w) - 2 * Len(info["author_dict"].dict)] = Header(2, "authors")

\* C10: a successful export writes its lines in the fixed order, a line for
\* exactly the keys that are present (the paper doi before the repository
\* doi), and the same authors in the same order in both author lists, the
\* second of which ends the output.
C10_EmissionOrder == Exported => C10_Holds(Written, C10_Core, info_dict)

\* an export of a conference paper with a repository version has written the
\* publisher and conference objects and the page range
C10_Witness ==
    /\ Exported
    /\ {"doi", "publisher", "conference", "repo_version", "start", "end"} \subseteq DOMAIN info_dict
    /\ Len(Written) > 20

====
